---- MODULE Spec2Model ----
(***************************************************************************)
(* SpenderBender: import of a transaction export and aggregation into      *)
(* groups (src/src/main.rs).                                               *)
(*                                                                         *)
(* Strings are sequences of one-character strings, so that lower-casing,   *)
(* byte-wise ordering (BTreeMap<String, _>) and regex matching are         *)
(* computed rather than assumed.  Amounts are exact decimals; the          *)
(* rounding of f64 is not modelled.                                        *)
(***************************************************************************)
EXTENDS Integers, Sequences, FiniteSets, TLC

VARIABLES
    phase,           \* main(): "config" | "pushing" | "aggregated"
    parties,         \* GroupConfig.parties : pattern -> group name
    group_matchers,  \* Groups.group_matchers
    stats_summary,   \* Groups.stats_summary : group -> total
    stats_monthly,   \* Groups.stats_monthly : MonthYear -> (group -> total)
    start,           \* Groups.start
    end,             \* Groups.end
    stderr,          \* the "No group mapping found" lines written so far
    pushed,          \* the records handed to push so far, in order
    result,          \* the Aggregate returned by aggregate()
    \* import()
    istate,          \* "start" | "header" | "rows" | "ok" | "err" | "panic"
    config,          \* ImportConfig: skip, number_locale, map
    rownum,          \* rows taken from the reader so far
    header,          \* the header row
    headers,         \* the (column index, field) pairs of the header row
    warned,          \* the configured/found headers mismatch line was written
    consumed,        \* the data rows read so far, in order
    delivered,       \* the records handed to taker so far, in order
    ierror,          \* the error import returned, "" while there is none
    \* parsing of one amount cell
    token,           \* the cell's text
    locale,          \* the resolved Locale
    parsed           \* <<>> before the parse, then its Result

gvars == <<phase, parties, group_matchers, stats_summary, stats_monthly,
           start, end, stderr, pushed, result>>
ivars == <<istate, config, rownum, header, headers, warned, consumed, delivered,
           ierror>>
pvars == <<token, locale, parsed>>
vars == <<gvars, ivars, pvars>>

----------------------------------------------------------------------------
(* Bounds of the model *)

MaxPush == 2

----------------------------------------------------------------------------
(* Strings *)

Code(c) ==
    CASE c = " " -> 32 [] c = "(" -> 40 [] c = "," -> 44 [] c = "-" -> 45
      [] c = "." -> 46 [] c = "0" -> 48 [] c = "1" -> 49 [] c = "2" -> 50
      [] c = "3" -> 51 [] c = "4" -> 52 [] c = "5" -> 53 [] c = "6" -> 54
      [] c = "7" -> 55 [] c = "8" -> 56 [] c = "9" -> 57 [] c = "A" -> 65
      [] c = "B" -> 66 [] c = "^" -> 94 [] c = "a" -> 97 [] c = "b" -> 98
      [] c = "d" -> 100 [] c = "g" -> 103 [] c = "p" -> 112 [] c = "q" -> 113
      [] c = "x" -> 120 [] OTHER -> 127

\* Ord for String: byte-wise lexicographic, a proper prefix first.
StrLess(a, b) ==
    \E i \in 1..(Len(b)) :
        /\ \A j \in 1..(i - 1) : j <= Len(a) /\ a[j] = b[j]
        /\ i - 1 <= Len(a)
        /\ (i > Len(a) \/ Code(a[i]) < Code(b[i]))

LowerChar(c) == CASE c = "A" -> "a" [] c = "B" -> "b" [] OTHER -> c

to_lowercase(s) == [i \in 1..Len(s) |-> LowerChar(s[i])]

----------------------------------------------------------------------------
(* Regex: the patterns of the model are literals, optionally anchored with *)
(* a leading ^; a pattern holding "(" has an unclosed group.               *)

Regex_new_ok(pattern) == \A i \in 1..Len(pattern) : pattern[i] # "("

IsPrefixAt(lit, text, k) ==
    /\ k + Len(lit) - 1 <= Len(text)
    /\ \A i \in 1..Len(lit) : text[k + i - 1] = lit[i]

is_match(pattern, text) ==
    IF Len(pattern) > 0 /\ pattern[1] = "^"
    THEN IsPrefixAt(Tail(pattern), text, 1)
    ELSE \E k \in 1..(Len(text) + 1) : IsPrefixAt(pattern, text, k)

----------------------------------------------------------------------------
(* Orders and sorting *)

\* BTreeMap iteration: the keys in ascending order.
BTreeKeys(S) ==
    [p \in 1..Cardinality(S) |->
        CHOOSE x \in S : Cardinality({y \in S : StrLess(y, x)}) = p - 1]

\* slice::sort_by_key, a stable sort: position of element i in the output.
StableRank(seq, Less(_, _), i) ==
    1 + Cardinality({j \in 1..Len(seq) :
            \/ Less(seq[j], seq[i])
            \/ (~Less(seq[i], seq[j]) /\ j < i)})

\* F(x), with x evaluated once.
With(x, F(_)) == CHOOSE y \in {F(v) : v \in {x}} : TRUE

SortedByRank(seq, rank) ==
    [p \in 1..Len(seq) |-> seq[CHOOSE i \in 1..Len(seq) : rank[i] = p]]

sort_by_key(seq, Less(_, _)) ==
    With(seq, LAMBDA s :
        With([i \in 1..Len(s) |-> StableRank(s, Less, i)],
             LAMBDA rank : SortedByRank(s, rank)))

\* Every iteration order an unordered map over the key set S can have.
IterOrders(S) ==
    {f \in [1..Cardinality(S) -> S] : \A x \in S : \E i \in DOMAIN f : f[i] = x}

Abs(x) == IF x < 0 THEN -x ELSE x

RECURSIVE SumSeq(_)
SumSeq(s) == IF s = <<>> THEN 0 ELSE Head(s) + SumSeq(Tail(s))

----------------------------------------------------------------------------
(* Dates *)

NaiveDate_MAX == <<262142, 12, 31>>
NaiveDate_MIN == <<-262143, 1, 1>>

DateLess(a, b) ==
    \/ a[1] < b[1]
    \/ (a[1] = b[1] /\ a[2] < b[2])
    \/ (a[1] = b[1] /\ a[2] = b[2] /\ a[3] < b[3])

DateMinOf(a, b) == IF DateLess(b, a) THEN b ELSE a
DateMaxOf(a, b) == IF DateLess(a, b) THEN b ELSE a

MonthYearFrom(date) == [month |-> date[2], year |-> date[1]]

\* Ord for MonthYear: the year, then the month narrowed to u8.
MonthYearLess(a, b) ==
    \/ a.year < b.year
    \/ (a.year = b.year /\ (a.month % 256) < (b.month % 256))

----------------------------------------------------------------------------
(* Inputs of the model *)

Parties == {<<"A", "b">>, <<"b", "a">>}
Patterns == {<<"a">>, <<"^", "b">>, <<"(">>}
GroupNames == {<<"a", "b">>, <<"g">>}
Dates == {<<2023, 12, 31>>, <<2024, 1, 15>>}
Amounts == {-1, 1}

\* Single-party rows (party1 = party2) and one dual-party pair.
PartyPairs == {<<p, p>> : p \in Parties} \cup {<<<<"A", "b">>, <<"b", "a">>>>}

Records ==
    {[date |-> d, party1 |-> pp[1], party2 |-> pp[2], amount |-> a] :
        d \in Dates, pp \in PartyPairs, a \in Amounts}

\* Every party map over the patterns; the group of a pattern that does not
\* compile is never read, and is "g".
GroupConfigs ==
    {f \in UNION {[D -> GroupNames] : D \in SUBSET Patterns} :
        \A p \in DOMAIN f : ~Regex_new_ok(p) => f[p] = <<"g">>}

----------------------------------------------------------------------------
(* Groups *)

\* Groups::new: the patterns in key order; flat_map over the Result of
\* Regex::new keeps the Ok values only.
CompiledMatchers(map) ==
    LET keys == BTreeKeys(DOMAIN map)
        RECURSIVE Build(_)
        Build(i) ==
            IF i > Len(keys) THEN <<>>
            ELSE (IF Regex_new_ok(keys[i])
                  THEN <<<<keys[i], map[keys[i]]>>>> ELSE <<>>)
                 \o Build(i + 1)
    IN Build(1)

\* A push that keys every record by party1, whatever the sign of its amount.
PushKey_Party1(record) == to_lowercase(record.party1)

\* The key push classifies: party2 of an outflow, party1 otherwise.
PushKey(record) ==
    IF record.amount < 0 THEN to_lowercase(record.party2)
    ELSE to_lowercase(record.party1)

\* iter().find(): index of the first matcher that matches, 0 when none does.
FindMatcher(matchers, key) ==
    IF \E i \in 1..Len(matchers) : is_match(matchers[i][1], key)
    THEN CHOOSE i \in 1..Len(matchers) :
            /\ is_match(matchers[i][1], key)
            /\ \A j \in 1..(i - 1) : ~is_match(matchers[j][1], key)
    ELSE 0

Classify(matchers, key) ==
    LET i == FindMatcher(matchers, key)
    IN IF i = 0 THEN [hit |-> FALSE, group |-> key]
       ELSE [hit |-> TRUE, group |-> matchers[i][2]]

\* An entry that is overwritten with the amount instead of added to.
AddTo_Overwrite(map, k, amount) ==
    [x \in DOMAIN map \cup {k} |-> IF x = k THEN amount ELSE map[x]]

\* entry(k).or_insert(0.0) += amount
AddTo(map, k, amount) ==
    IF k \in DOMAIN map THEN [map EXCEPT ![k] = @ + amount]
    ELSE [x \in DOMAIN map \cup {k} |-> IF x = k THEN amount ELSE map[x]]

EmptyMap == [x \in {} |-> 0]

MonthlyAfterPush(monthly, my, group, amount) ==
    IF my \in DOMAIN monthly
    THEN [monthly EXCEPT ![my] = AddTo(@, group, amount)]
    ELSE [x \in DOMAIN monthly \cup {my} |->
            IF x = my THEN AddTo(EmptyMap, group, amount) ELSE monthly[x]]

\* The lines push writes to stderr: the or_insert_with closure runs only
\* when the summary has no entry for the group yet.
StderrAfterPush(log, summary, c) ==
    IF c.group \notin DOMAIN summary /\ ~c.hit THEN Append(log, c.group) ELSE log

\* The accumulator after push(record) on the accumulator g.
AfterPush(g, record) ==
    LET c == Classify(g.group_matchers, PushKey(record))
    IN [group_matchers |-> g.group_matchers,
        stats_summary |-> AddTo(g.stats_summary, c.group, record.amount),
        stderr |-> StderrAfterPush(g.stderr, g.stats_summary, c),
        stats_monthly |-> MonthlyAfterPush(g.stats_monthly,
                              MonthYearFrom(record.date), c.group, record.amount),
        start |-> DateMinOf(g.start, record.date),
        end |-> DateMaxOf(g.end, record.date)]

\* Groups::new(config), with the stderr of the run so far empty.
NewGroups(group_config) ==
    [group_matchers |-> CompiledMatchers(group_config),
     stats_summary |-> EmptyMap,
     stats_monthly |-> EmptyMap,
     stderr |-> <<>>,
     start |-> NaiveDate_MAX,
     end |-> NaiveDate_MIN]

RECURSIVE AfterPushes(_, _)
AfterPushes(g, records) ==
    IF records = <<>> THEN g
    ELSE AfterPushes(AfterPush(g, Head(records)), Tail(records))

Groups ==
    [group_matchers |-> group_matchers, stats_summary |-> stats_summary,
     stats_monthly |-> stats_monthly, stderr |-> stderr,
     start |-> start, end |-> end]

New ==
    /\ phase = "config"
    /\ phase' = "pushing"
    /\ group_matchers' = NewGroups(parties).group_matchers
    /\ stats_summary' = NewGroups(parties).stats_summary
    /\ stats_monthly' = NewGroups(parties).stats_monthly
    /\ start' = NewGroups(parties).start
    /\ end' = NewGroups(parties).end
    /\ UNCHANGED <<parties, stderr, pushed, result, ivars, pvars>>

Push(record) ==
    /\ phase = "pushing"
    /\ Len(pushed) < MaxPush
    /\ LET g == AfterPush(Groups, record)
       IN /\ stats_summary' = g.stats_summary
          /\ stderr' = g.stderr
          /\ stats_monthly' = g.stats_monthly
          /\ start' = g.start
          /\ end' = g.end
    /\ pushed' = Append(pushed, record)
    /\ UNCHANGED <<phase, parties, group_matchers, result, ivars, pvars>>

----------------------------------------------------------------------------
(* Groups::aggregate *)

TopN == 20

\* A truncate that keeps one element more.
truncate_OneMore(seq, n) == IF Len(seq) <= n + 1 THEN seq ELSE SubSeq(seq, 1, n + 1)

truncate(seq, n) == IF Len(seq) <= n THEN seq ELSE SubSeq(seq, 1, n)

\* into_iter().collect() of a map in iteration order ord.
Collect(map, ord) == [i \in 1..Len(ord) |-> <<ord[i], map[ord[i]]>>]

AmountLess(a, b) == a[2] < b[2]
NegAbsLess(a, b) == -Abs(a[2]) < -Abs(b[2])
BucketLess(a, b) == MonthYearLess(a[1], b[1])

SummaryOf(summary, ordS) == sort_by_key(Collect(summary, ordS), AmountLess)

MonthEntries(entries, ordE) ==
    truncate(sort_by_key(Collect(entries, ordE), NegAbsLess), TopN)

MonthlyOf(monthly, ordM, ordE) ==
    sort_by_key([i \in 1..Len(ordM) |->
                    <<ordM[i], MonthEntries(monthly[ordM[i]], ordE[ordM[i]])>>],
                BucketLess)

\* A series that leaves out the months in which the group has no total.
GroupedSeries_Sparse(monthly, ordM, g) ==
    LET at == SelectSeq(ordM, LAMBDA m : g \in DOMAIN monthly[m])
    IN [i \in 1..Len(at) |-> <<at[i], monthly[at[i]][g]>>]

GroupedSeries(monthly, ordM, g) ==
    [i \in 1..Len(ordM) |->
        <<ordM[i], IF g \in DOMAIN monthly[ordM[i]] THEN monthly[ordM[i]][g] ELSE 0>>]

GroupedOf(summarySeq, monthly, ordM) ==
    [i \in 1..Len(summarySeq) |->
        <<summarySeq[i][1], GroupedSeries(monthly, ordM, summarySeq[i][1])>>]

AggregateOf(ordS, ordM, ordE) ==
    With(SummaryOf(stats_summary, ordS), LAMBDA s :
        [start |-> start,
         end |-> end,
         stats_summary |-> s,
         stats_monthly |-> MonthlyOf(stats_monthly, ordM, ordE),
         stats_grouped |-> GroupedOf(s, stats_monthly, ordM)])

\* The iteration orders of the three kinds of AHashMap are not determined
\* by their contents.
\* One iteration order for the entries of each month.
EntryOrders(Orders(_)) ==
    With({<<m, o>> : m \in DOMAIN stats_monthly,
                     o \in UNION {Orders(DOMAIN stats_monthly[k]) :
                                    k \in DOMAIN stats_monthly}},
         LAMBDA all :
            With({mo \in all : mo[2] \in Orders(DOMAIN stats_monthly[mo[1]])},
                 LAMBDA own :
                    {f \in [DOMAIN stats_monthly -> {mo[2] : mo \in own}] :
                        \A m \in DOMAIN stats_monthly : <<m, f[m]>> \in own}))

AggregateResultsOver(Orders(_)) ==
    With(Orders(DOMAIN stats_summary), LAMBDA sumOrders :
    With(Orders(DOMAIN stats_monthly), LAMBDA monthOrders :
    With(EntryOrders(Orders), LAMBDA entryOrders :
        {AggregateOf(ordS, ordM, ordE) :
            ordS \in sumOrders, ordM \in monthOrders, ordE \in entryOrders})))

AggregateResults == AggregateResultsOver(IterOrders)

Aggregate ==
    /\ phase = "pushing"
    /\ phase' = "aggregated"
    /\ result' \in AggregateResults
    /\ UNCHANGED <<parties, group_matchers, stats_summary, stats_monthly,
                   start, end, stderr, pushed, ivars, pvars>>

\* aggregate() of another accumulator that holds the same accumulated state:
\* its maps iterate in an order of their own.
AggregateAgain ==
    /\ phase = "aggregated"
    /\ result' \in AggregateResults
    /\ UNCHANGED <<phase, parties, group_matchers, stats_summary, stats_monthly,
                   start, end, stderr, pushed, ivars, pvars>>

----------------------------------------------------------------------------
(* Numbers.  A parsed amount is an exact decimal [num, exp], the value     *)
(* num / 10^exp, with no trailing zero in its fractional part.             *)

MaxTokenLen == 4

RECURSIVE Pow10(_)
Pow10(n) == IF n = 0 THEN 1 ELSE 10 * Pow10(n - 1)

RECURSIVE Decimal(_, _)
Decimal(num, exp) ==
    IF exp > 0 /\ num % 10 = 0 THEN Decimal(num \div 10, exp - 1)
    ELSE [num |-> num, exp |-> exp]

IsDigit(c) == Code(c) >= 48 /\ Code(c) <= 57

RECURSIVE DigitsValue(_)
DigitsValue(s) ==
    IF s = <<>> THEN 0
    ELSE 10 * DigitsValue(SubSeq(s, 1, Len(s) - 1)) + (Code(s[Len(s)]) - 48)

AllDigits(s) == s # <<>> /\ \A i \in 1..Len(s) : IsDigit(s[i])

\* str::split_once(c): position of the first c in s, 0 when there is none.
FirstIndex(s, c) ==
    IF \E i \in 1..Len(s) : s[i] = c
    THEN CHOOSE i \in 1..Len(s) : s[i] = c /\ \A j \in 1..(i - 1) : s[j] # c
    ELSE 0

RECURSIVE Without(_, _)
Without(s, c) ==
    IF s = <<>> THEN <<>>
    ELSE (IF Head(s) = c THEN <<>> ELSE <<Head(s)>>) \o Without(Tail(s), c)

\* num_format::Locale: decimal() and separator() of en and de.
LocaleNames == {"en", "de"}
Locale_from_name_ok(name) == name \in LocaleNames
DecimalOf(loc) == IF loc = "de" THEN "," ELSE "."
Separator(loc) == IF loc = "de" THEN "." ELSE ","

\* parse_formatted::<_, i64>: a leading minus sign, the locale's grouping
\* separators dropped, decimal digits.
parse_formatted(s, loc) ==
    LET neg == s # <<>> /\ s[1] = "-"
        digits == Without(IF neg THEN Tail(s) ELSE s, Separator(loc))
    IN IF AllDigits(digits)
       THEN [ok |-> TRUE,
             value |-> IF neg THEN -DigitsValue(digits) ELSE DigitsValue(digits)]
       ELSE [ok |-> FALSE, value |-> 0]

\* str::parse::<u64>
parse_u64(s) ==
    IF AllDigits(s) THEN [ok |-> TRUE, value |-> DigitsValue(s)]
    ELSE [ok |-> FALSE, value |-> 0]

\* result += fract as f64 * 10^-len, on result = int as f64: the value
\* (int * 10^len + fract) / 10^len.
AddFract(int, fract, len) == Decimal(int * Pow10(len) + fract, len)

\* The "amount" arm of import.
ParseAmount(value, loc) ==
    LET cut == FirstIndex(value, DecimalOf(loc))
        int == IF cut = 0 THEN value ELSE SubSeq(value, 1, cut - 1)
        x1 == IF cut = 0 THEN <<"0">> ELSE SubSeq(value, cut + 1, Len(value))
        sp == FirstIndex(x1, " ")
        fract == IF sp = 0 THEN x1 ELSE SubSeq(x1, 1, sp - 1)
        i == parse_formatted(int, loc)
        f == parse_u64(fract)
    IN IF ~i.ok THEN [ok |-> FALSE, value |-> Decimal(0, 0), error |-> "amount"]
       ELSE IF ~f.ok THEN [ok |-> FALSE, value |-> Decimal(0, 0), error |-> "fract"]
       ELSE [ok |-> TRUE, value |-> AddFract(i.value, f.value, Len(fract)),
             error |-> ""]

----------------------------------------------------------------------------
(* Dates in cells: date_format is "%d.%m.%Y", cells in the form dd.mm.yyyy *)

IsLeap(y) == (y % 4 = 0 /\ y % 100 # 0) \/ y % 400 = 0

DaysIn(y, m) ==
    IF m = 2 THEN (IF IsLeap(y) THEN 29 ELSE 28)
    ELSE IF m \in {4, 6, 9, 11} THEN 30 ELSE 31

ParseDate(value) ==
    LET shaped == /\ Len(value) = 10
                  /\ value[3] = "." /\ value[6] = "."
                  /\ \A i \in {1, 2, 4, 5, 7, 8, 9, 10} : IsDigit(value[i])
        d == DigitsValue(SubSeq(value, 1, 2))
        m == DigitsValue(SubSeq(value, 4, 5))
        y == DigitsValue(SubSeq(value, 7, 10))
    IN IF shaped /\ m >= 1 /\ m <= 12 /\ d >= 1 /\ d <= DaysIn(y, m)
       THEN [ok |-> TRUE, date |-> <<y, m, d>>]
       ELSE [ok |-> FALSE, date |-> <<>>]

----------------------------------------------------------------------------
(* import: inputs of the model *)

MaxRows == 3

FieldNames == {"date", "party", "party1", "party2", "amount", "description"}

HeaderPatterns == {<<"d">>, <<"p">>, <<"q">>, <<"a">>, <<"(">>}

BaseMap ==
    [x \in {<<"d">>, <<"p">>, <<"a">>} |->
        IF x = <<"d">> THEN "date" ELSE IF x = <<"p">> THEN "party" ELSE "amount"]

DualMap ==
    [x \in {<<"d">>, <<"p">>, <<"q">>, <<"a">>} |->
        IF x = <<"d">> THEN "date" ELSE IF x = <<"p">> THEN "party1"
        ELSE IF x = <<"q">> THEN "party2" ELSE "amount"]

Restrict(f, D) == [x \in D |-> f[x]]
Extend(f, k, v) == [x \in DOMAIN f \cup {k} |-> IF x = k THEN v ELSE f[x]]

\* The single-party and the dual-party layout, and every map that differs
\* from the single-party one in one entry (dropped, renamed to any field
\* name or to one that does not exist, or added).
ImportMaps ==
    {BaseMap, DualMap}
    \cup {Restrict(BaseMap, DOMAIN BaseMap \ {k}) : k \in DOMAIN BaseMap}
    \cup {Extend(BaseMap, k, f) :
            k \in HeaderPatterns, f \in FieldNames \cup {"bogus"}}

DefaultConfig == [skip |-> 0, number_locale |-> "none", map |-> BaseMap]

ImportConfigs ==
    {[DefaultConfig EXCEPT !.map = m] : m \in ImportMaps}
    \cup {[DefaultConfig EXCEPT !.skip = 1]}
    \cup {[DefaultConfig EXCEPT !.number_locale = n] : n \in {"de", "zz"}}

HeaderRows ==
    {<<<<"d">>, <<"p", "q">>, <<"a">>>>,
     <<<<"a">>, <<"x">>, <<"d">>>>,
     <<<<"d">>, <<"p", "q">>, <<"q">>, <<"a">>>>}

\* A date (no amount in en: its fractional part is "01.2024") and an amount
\* (no date); both are party names.
CellValues ==
    {<<"1", "5", ".", "0", "1", ".", "2", "0", "2", "4">>, <<"-", "5">>}

\* Ragged rows: as many cells as the header row has, or one fewer.
RowsOfLen(n) == [1..n -> CellValues]
DataRows(ncols) == RowsOfLen(ncols) \cup RowsOfLen(ncols - 1)

----------------------------------------------------------------------------
(* import *)

ResolvedLocale(cfg) == IF cfg.number_locale = "none" THEN "en" ELSE cfg.number_locale

\* field_matchers: the map in key order, flat_map keeping the patterns that
\* compile.
FieldMatchers(map) == CompiledMatchers(map)

\* headers: for each header cell, in column order, the field of the first
\* matcher that matches it; a cell no matcher matches is left out.
HeadersOf(hdr, matchers) ==
    LET RECURSIVE Build(_)
        Build(i) ==
            IF i > Len(hdr) THEN <<>>
            ELSE (IF FindMatcher(matchers, hdr[i]) = 0 THEN <<>>
                  ELSE <<<<i, matchers[FindMatcher(matchers, hdr[i])][2]>>>>)
                 \o Build(i + 1)
    IN Build(1)

NoFields == [date |-> <<>>, party1 |-> <<>>, party2 |-> <<>>, amount |-> <<>>,
             description |-> <<>>]

RowError(e) == [status |-> "err", error |-> e, fields |-> NoFields]

\* One (index, field) step of the inner loop.
SetField(acc, field, value, loc) ==
    CASE field = "date" ->
            IF ParseDate(value).ok
            THEN [acc EXCEPT !.fields.date = <<ParseDate(value).date>>]
            ELSE RowError("date")
      [] field = "party1" -> [acc EXCEPT !.fields.party1 = <<value>>]
      [] field = "party2" -> [acc EXCEPT !.fields.party2 = <<value>>]
      [] field = "amount" ->
            IF ParseAmount(value, loc).ok
            THEN [acc EXCEPT !.fields.amount = <<ParseAmount(value, loc).value>>]
            ELSE RowError("amount")
      [] field = "description" -> [acc EXCEPT !.fields.description = value]
      [] field = "party" ->
            [acc EXCEPT !.fields.party1 = <<value>>, !.fields.party2 = <<value>>]
      [] OTHER -> [status |-> "panic", error |-> "unreachable", fields |-> NoFields]

\* The required fields, checked after the inner loop in this order.
Assemble(acc) ==
    IF acc.status # "ok" THEN acc
    ELSE IF acc.fields.date = <<>> THEN RowError("Date missing")
    ELSE IF acc.fields.party1 = <<>> THEN RowError("Party 1 missing")
    ELSE IF acc.fields.party2 = <<>> THEN RowError("Party 2 missing")
    ELSE IF acc.fields.amount = <<>> THEN RowError("Amount missing")
    ELSE acc

\* The body of the loop over the data rows, up to the call of taker.
ProcessRow(row, hdrs, loc) ==
    LET RECURSIVE Step(_, _)
        Step(i, acc) ==
            IF acc.status # "ok" \/ i > Len(hdrs) THEN acc
            ELSE IF hdrs[i][1] > Len(row)
                 THEN RowError("Not enough data columns")
                 ELSE Step(i + 1, SetField(acc, hdrs[i][2], row[hdrs[i][1]], loc))
    IN Assemble(Step(1, [status |-> "ok", error |-> "", fields |-> NoFields]))

RecordOf(fields) ==
    [date |-> fields.date[1], party1 |-> fields.party1[1],
     party2 |-> fields.party2[1], amount |-> fields.amount[1],
     description |-> fields.description]

\* Locale::from_name(..)? and the opening of the reader.
Open ==
    /\ istate = "start"
    /\ IF Locale_from_name_ok(ResolvedLocale(config))
       THEN istate' = "header" /\ ierror' = ierror
       ELSE istate' = "err" /\ ierror' = "locale"
    /\ UNCHANGED <<config, rownum, header, headers, warned, consumed, delivered,
                   gvars, pvars>>

\* records.skip(skip).next() on a file of at most skip rows.
NoHeader ==
    /\ istate = "header"
    /\ istate' = "err"
    /\ ierror' = "no header"
    /\ UNCHANGED <<config, rownum, header, headers, warned, consumed, delivered,
                   gvars, pvars>>

\* The header row, the compilation of the patterns and the column mapping.
ReadHeader(row) ==
    /\ istate = "header"
    /\ istate' = "rows"
    /\ rownum' = config.skip + 1
    /\ header' = row
    /\ headers' = HeadersOf(row, FieldMatchers(config.map))
    /\ warned' = (Len(headers') # Cardinality(DOMAIN config.map))
    /\ UNCHANGED <<config, consumed, delivered, ierror, gvars, pvars>>

\* One turn of the loop over the data rows.
ReadRow(row) ==
    /\ istate = "rows"
    /\ Len(consumed) < MaxRows
    /\ consumed' = Append(consumed, row)
    /\ rownum' = rownum + 1
    /\ LET r == ProcessRow(row, headers, ResolvedLocale(config))
       IN CASE r.status = "ok" ->
                 /\ delivered' = Append(delivered, RecordOf(r.fields))
                 /\ UNCHANGED <<istate, ierror>>
            [] r.status = "err" ->
                 /\ istate' = "err"
                 /\ ierror' = r.error
                 /\ UNCHANGED delivered
            [] OTHER ->
                 /\ istate' = "panic"
                 /\ ierror' = r.error
                 /\ UNCHANGED delivered
    /\ UNCHANGED <<config, header, headers, warned, gvars, pvars>>

\* The reader is exhausted: Ok(()).
EndOfFile ==
    /\ istate = "rows"
    /\ istate' = "ok"
    /\ UNCHANGED <<config, rownum, header, headers, warned, consumed, delivered,
                   ierror, gvars, pvars>>

GroupsIdle ==
    /\ group_matchers = <<>>
    /\ stats_summary = EmptyMap
    /\ stats_monthly = EmptyMap
    /\ start = NaiveDate_MAX
    /\ end = NaiveDate_MIN
    /\ stderr = <<>>
    /\ pushed = <<>>
    /\ result = <<>>

ImportIdle ==
    /\ istate = "start"
    /\ rownum = 0
    /\ header = <<>>
    /\ headers = <<>>
    /\ warned = FALSE
    /\ consumed = <<>>
    /\ delivered = <<>>
    /\ ierror = ""

ParseIdle ==
    /\ token = <<>>
    /\ locale = "en"
    /\ parsed = <<>>

InitImport ==
    /\ phase = "config"
    /\ parties = EmptyMap
    /\ GroupsIdle
    /\ ImportIdle
    /\ config \in ImportConfigs
    /\ ParseIdle

NextImport ==
    \/ Open
    \/ NoHeader
    \/ \E row \in HeaderRows : ReadHeader(row)
    \/ \E row \in DataRows(Len(header)) : ReadRow(row)
    \/ EndOfFile

SpecImport == InitImport /\ [][NextImport]_vars

----------------------------------------------------------------------------

Init ==
    /\ phase = "config"
    /\ parties \in GroupConfigs
    /\ GroupsIdle
    /\ ImportIdle
    /\ config = DefaultConfig
    /\ ParseIdle

Next ==
    \/ New
    \/ \E record \in Records : Push(record)
    \/ Aggregate
    \/ AggregateAgain

Spec == Init /\ [][Next]_vars

----------------------------------------------------------------------------
(* What the pushed records say, independently of the accumulator *)

\* The party a record is attributed to, lower-cased.
ExpectedKey(r) == to_lowercase(IF r.amount < 0 THEN r.party2 ELSE r.party1)

\* The configured patterns that match k.
MatchingPatterns(k) ==
    {p \in DOMAIN parties : Regex_new_ok(p) /\ is_match(p, k)}

\* The first of them in the order of the party map.
FirstPattern(k) ==
    CHOOSE p \in MatchingPatterns(k) :
        \A q \in MatchingPatterns(k) : q = p \/ StrLess(p, q)

ExpectedGroup(r) ==
    IF MatchingPatterns(ExpectedKey(r)) = {} THEN ExpectedKey(r)
    ELSE parties[FirstPattern(ExpectedKey(r))]

\* Sum of the amounts of the pushed records that satisfy Keep.
PushedSum(Keep(_)) ==
    SumSeq([i \in 1..Len(pushed) |->
                IF Keep(pushed[i]) THEN pushed[i].amount ELSE 0])

PushedGroups == {ExpectedGroup(pushed[i]) : i \in 1..Len(pushed)}
PushedMonths == {MonthYearFrom(pushed[i].date) : i \in 1..Len(pushed)}

Count(seq, x) == Cardinality({i \in 1..Len(seq) : seq[i] = x})

----------------------------------------------------------------------------
(* C1: conservation of total.  After aggregate(), the totals of            *)
(* stats_summary sum to the sum of the amounts of all pushed records, and  *)
(* every pushed record's group appears exactly once in stats_summary.      *)

C2_Classification ==
    phase # "config" =>
        /\ DOMAIN stats_summary = PushedGroups
        /\ \A g \in PushedGroups :
              stats_summary[g] = PushedSum(LAMBDA r : ExpectedGroup(r) = g)
        /\ DOMAIN stats_monthly = PushedMonths
        /\ \A m \in PushedMonths :
              /\ DOMAIN stats_monthly[m]
                   = {ExpectedGroup(pushed[i]) :
                        i \in {j \in 1..Len(pushed) :
                                 MonthYearFrom(pushed[j].date) = m}}
              /\ \A g \in DOMAIN stats_monthly[m] :
                    stats_monthly[m][g]
                      = PushedSum(LAMBDA r : ExpectedGroup(r) = g
                                             /\ MonthYearFrom(r.date) = m)

C2_Witness ==
    /\ phase = "pushing"
    /\ Len(pushed) = MaxPush
    /\ \E i \in 1..Len(pushed) :
          /\ pushed[i].amount < 0
          /\ to_lowercase(pushed[i].party1) # to_lowercase(pushed[i].party2)
          /\ Cardinality(MatchingPatterns(ExpectedKey(pushed[i]))) = 2
          /\ \E p \in MatchingPatterns(ExpectedKey(pushed[i])) :
                parties[p] # ExpectedGroup(pushed[i])

(* C4: determinism of aggregation.  aggregate() run again over the same    *)
(* accumulated state returns the same Aggregate, in every field and order. *)

C4_Deterministic ==
    [][(phase = "aggregated" /\ phase' = "aggregated") => result' = result]_vars

(* C7: stats_grouped lists the groups of stats_summary in the same order,  *)
(* and each group's series has exactly one entry per month of the pushed   *)
(* records, holding the group's total of that month (0 when it has none),  *)
(* so that the series sums to the group's stats_summary total.             *)

C9_FailFast ==
    (\E p \in DOMAIN parties : ~Regex_new_ok(p)) => phase = "config"

(* C10: the "no group mapping found" line is written exactly once for each *)
(* distinct lower-cased key pushed that matches no matcher, and never for  *)
(* a key that matches one.                                                 *)

C10_DiagnosticOnce ==
    \A i \in 1..Len(pushed) :
        LET k == ExpectedKey(pushed[i])
        IN IF MatchingPatterns(k) = {}
           THEN Count(stderr, k) = 1
           ELSE Count(stderr, k) = 0

----------------------------------------------------------------------------
(* Parsing of one amount cell, as a run of its own *)

TokenChars == {"-", "0", "5", ",", ".", " "}

ExampleTokens ==
    {<<"1", ".", "2", "3", "4", ",", "5", "6">>,
     <<"-", "5", "0", ",", "2", "5">>}

Tokens ==
    UNION {[1..n -> TokenChars] : n \in 0..MaxTokenLen} \cup ExampleTokens

ParseCell ==
    /\ parsed = <<>>
    /\ parsed' = <<ParseAmount(token, locale)>>
    /\ UNCHANGED <<token, locale, gvars, ivars>>

InitParse ==
    /\ phase = "config"
    /\ parties = EmptyMap
    /\ GroupsIdle
    /\ ImportIdle
    /\ config = DefaultConfig
    /\ token \in Tokens
    /\ locale \in LocaleNames
    /\ parsed = <<>>

NextParse == ParseCell

SpecParse == InitParse /\ [][NextParse]_vars

----------------------------------------------------------------------------
(* aggregate() over months of more than TopN groups.  The accumulator is   *)
(* the one left by one push per group; its maps are too large to take      *)
(* every iteration order, and take the rotations of the key order and of   *)
(* its reverse.                                                            *)

MaxExtra == 2
MaxShift == 2
MaxSeed == 1

Letters == <<"a", "b", "d", "g", "p">>
PartyName(i) == <<Letters[(i \div 5) + 1], Letters[(i % 5) + 1]>>

AmountOf(i, stride, shift) == ((i * stride + shift) % 7) - 3

Rotate(seq, h) ==
    [i \in 1..Len(seq) |-> seq[((i + h - 1) % Len(seq)) + 1]]

Reverse(seq) == [i \in 1..Len(seq) |-> seq[Len(seq) + 1 - i]]

\* Small maps (the months, a month of a few groups) take every order.
SeededOrders(S) ==
    IF Cardinality(S) <= 3 THEN IterOrders(S)
    ELSE {Rotate(keys, h) : keys \in {BTreeKeys(S)}, h \in 0..MaxSeed}
         \cup {Reverse(Rotate(keys, h)) : keys \in {BTreeKeys(S)}, h \in 0..MaxSeed}

\* One record per party 1..n in January 2024, then one per party 1..m in
\* December 2023.
ManyRecords(n, m, stride, shift) ==
    [i \in 1..(n + m) |->
        IF i <= n
        THEN [date |-> <<2024, 1, 15>>, party1 |-> PartyName(i),
              party2 |-> PartyName(i), amount |-> AmountOf(i, stride, shift)]
        ELSE [date |-> <<2023, 12, 31>>, party1 |-> PartyName(i - n),
              party2 |-> PartyName(i - n), amount |-> 1]]

AggregateMany ==
    /\ phase = "pushing"
    /\ phase' = "aggregated"
    /\ result' \in AggregateResultsOver(SeededOrders)
    /\ UNCHANGED <<parties, group_matchers, stats_summary, stats_monthly,
                   start, end, stderr, pushed, ivars, pvars>>

InitMany ==
    /\ phase = "pushing"
    /\ parties = EmptyMap
    /\ \E n \in (TopN - 1)..(TopN + MaxExtra) : \E m \in {0, 2} :
       \E stride \in {1, 3} : \E shift \in 0..MaxShift :
          /\ pushed = ManyRecords(n, m, stride, shift)
          /\ LET g == AfterPushes(NewGroups(parties), pushed)
             IN /\ group_matchers = g.group_matchers
                /\ stats_summary = g.stats_summary
                /\ stats_monthly = g.stats_monthly
                /\ stderr = g.stderr
                /\ start = g.start
                /\ end = g.end
    /\ result = <<>>
    /\ ImportIdle
    /\ config = DefaultConfig
    /\ ParseIdle

NextMany == AggregateMany

SpecMany == InitMany /\ [][NextMany]_vars

----------------------------------------------------------------------------
(* What the rows read say, independently of the loop *)

Max(S) == CHOOSE x \in S : \A y \in S : x >= y

\* The columns mapped to one of the fields fs.
ColumnsOf(fs) == {headers[i][1] : i \in {j \in 1..Len(headers) : headers[j][2] \in fs}}

RowFails(row) ==
    \/ \E i \in 1..Len(headers) : headers[i][1] > Len(row)
    \/ \E c \in ColumnsOf({"date"}) : ~ParseDate(row[c]).ok
    \/ \E c \in ColumnsOf({"amount"}) :
          ~ParseAmount(row[c], ResolvedLocale(config)).ok
    \/ ColumnsOf({"date"}) = {}
    \/ ColumnsOf({"party", "party1"}) = {}
    \/ ColumnsOf({"party", "party2"}) = {}
    \/ ColumnsOf({"amount"}) = {}

\* The record of a row that does not fail: each field from the last column
\* mapped to it.
ExpectedRecord(row) ==
    [date |-> ParseDate(row[Max(ColumnsOf({"date"}))]).date,
     party1 |-> row[Max(ColumnsOf({"party", "party1"}))],
     party2 |-> row[Max(ColumnsOf({"party", "party2"}))],
     amount |-> ParseAmount(row[Max(ColumnsOf({"amount"}))],
                            ResolvedLocale(config)).value,
     description |-> IF ColumnsOf({"description"}) = {} THEN <<>>
                     ELSE row[Max(ColumnsOf({"description"}))]]

UnknownFieldConfigured ==
    \E p \in DOMAIN config.map : config.map[p] \notin FieldNames

(* C3: fail-fast, in-order delivery.  taker is called once per data row in *)
(* file order; when a row fails (a date or an amount that does not parse,  *)
(* a required field missing, a column missing), taker has been called for  *)
(* exactly the rows before it, import has returned an error, and nothing   *)
(* is delivered from that row on.                                          *)

C3_FailFastInOrder ==
    LET n == Len(consumed)
        Before(k) ==
            /\ Len(delivered) = k
            /\ \A i \in 1..k :
                  /\ ~RowFails(consumed[i])
                  /\ delivered[i] = ExpectedRecord(consumed[i])
    IN /\ istate \in {"rows", "ok"} => Before(n)
       /\ (istate = "err" /\ n > 0) => (Before(n - 1) /\ RowFails(consumed[n]))
       /\ istate = "panic" => Before(n - 1)
       /\ istate \in {"ok", "err", "panic"} => ~ENABLED NextImport
       /\ (n > 0 /\ RowFails(consumed[n])) => istate = "err"

C3_Witness ==
    /\ istate = "err"
    /\ Len(consumed) = 3
    /\ Len(delivered) = 2
    /\ delivered[1] # delivered[2]
    /\ ierror \in {"date", "amount"}

(* C5: numeric parsing applies the sign written on the token to the        *)
(* fractional part: a token with integer part I and fractional digits F of *)
(* length n parses to sign * (|I| + F / 10^n).                             *)

ClaimedValue(tok, loc) ==
    LET cut == FirstIndex(tok, DecimalOf(loc))
        int == IF cut = 0 THEN tok ELSE SubSeq(tok, 1, cut - 1)
        rest == IF cut = 0 THEN <<"0">> ELSE SubSeq(tok, cut + 1, Len(tok))
        sp == FirstIndex(rest, " ")
        F == IF sp = 0 THEN rest ELSE SubSeq(rest, 1, sp - 1)
        neg == tok # <<>> /\ tok[1] = "-"
        absI == DigitsValue(Without(IF neg THEN Tail(int) ELSE int, Separator(loc)))
        magnitude == absI * Pow10(Len(F)) + DigitsValue(F)
    IN Decimal(IF neg THEN -magnitude ELSE magnitude, Len(F))

C5_SignedFraction ==
    (parsed # <<>> /\ parsed[1].ok) => parsed[1].value = ClaimedValue(token, locale)

(* C6: every stats_monthly bucket holds at most 20 entries, sorted by      *)
(* descending absolute total, and they are the groups of the month with    *)
(* the largest absolute totals.                                            *)

C6_TopTwenty ==
    phase = "aggregated" =>
        \A b \in 1..Len(result.stats_monthly) :
            LET all == stats_monthly[result.stats_monthly[b][1]]
                es == result.stats_monthly[b][2]
                kept == {es[i][1] : i \in 1..Len(es)}
            IN /\ Len(es) <= 20
               /\ Len(es) = IF Cardinality(DOMAIN all) < 20
                            THEN Cardinality(DOMAIN all) ELSE 20
               /\ Cardinality(kept) = Len(es)
               /\ \A i \in 1..Len(es) :
                     es[i][1] \in DOMAIN all /\ es[i][2] = all[es[i][1]]
               /\ \A i \in 1..(Len(es) - 1) : Abs(es[i][2]) >= Abs(es[i + 1][2])
               /\ \A g \in DOMAIN all \ kept :
                     \A i \in 1..Len(es) : Abs(all[g]) <= Abs(es[i][2])

C6_Witness ==
    /\ phase = "aggregated"
    /\ Len(result.stats_monthly) = 2
    /\ \E b \in 1..Len(result.stats_monthly) :
          /\ Len(result.stats_monthly[b][2]) = 20
          /\ Cardinality(DOMAIN stats_monthly[result.stats_monthly[b][1]]) = 22
          /\ Abs(result.stats_monthly[b][2][1][2]) > Abs(result.stats_monthly[b][2][20][2])

(* C8: a configured field name that does not exist is a configuration      *)
(* error detected eagerly: once the header mapping is built, import has    *)
(* ended in an error, before any data row is read.                         *)

C8_UnknownFieldEager ==
    (UnknownFieldConfigured /\ istate \notin {"start", "header"})
        => (istate = "err" /\ consumed = <<>>)

====
